---- MODULE Spec2Model ----
(***************************************************************************)
(* Litter-box event ledger (app.py): ingestion, classification by weight,  *)
(* look-ahead correlation, corrections (delete / blacklist / restore /     *)
(* reassign), profile management, and the read-only analytics views.       *)
(*                                                                         *)
(* Units.  Weights are fixed-point integers in 1/10000 lb (so 2.0 lb is    *)
(* 20000 and 2.0001 lb is 20001).  Times are integer seconds counted from  *)
(* 00:00:00 on 1 January of the current year (non-leap calendar); the      *)
(* 'YYYY-MM-DD HH:MM:SS' key of an event is in bijection with that number, *)
(* so the number stands for the timestamp string.  Both the parser's year  *)
(* anchor and the views' datetime.now() lie in that one year.              *)
(*                                                                         *)
(* Left out: the snapshot copy of the database written after an upload (no *)
(* handler reads it back), rows of fewer than three fields and NaN weights *)
(* (dropped or flagged before they reach the ledger logic), and the chart  *)
(* series of analysis other than cycle durations, dwell and frequency.     *)
(***************************************************************************)
EXTENDS Integers, Sequences, FiniteSets, TLC

VARIABLES usage_logs, data_blacklist, cat_profiles, upload_history, tmpfile, flash, ret

vars == <<usage_logs, data_blacklist, cat_profiles, upload_history, tmpfile, flash, ret>>

(***************************************************************************)
(* Program constants                                                       *)
(***************************************************************************)
TIMEZONE_OFFSET == 5

WEIGHT_TOLERANCE == 20000

MinWeight == 5000

InitialClosestDiff == 999000

Minute == 60

Hour == 60 * Minute

Day == 24 * Hour

SessionGapMinutes == 10

LookAheadMinutes == 7

LookAheadRows == 20

CycleMinSeconds == 60

CycleMaxSeconds == 300

YearStart == 0 * Day

VirtualExitMinutes == 15

DwellWindowMinutes == 30

(***************************************************************************)
(* Activity text.  The code tests lower-cased substrings; the device emits *)
(* a fixed vocabulary, so each substring test is the set of vocabulary     *)
(* entries that contain the substring.                                     *)
(***************************************************************************)
\* Vocabulary: "Cat detected", "Weight recorded", "Clean Cycle In Progress",
\* "Clean Cycle Complete", "Cycle interrupted".
HasSysKeyword(activity) ==
    activity \in {"Clean Cycle In Progress", "Clean Cycle Complete", "Cycle interrupted"}

HasCatDetected(activity) == activity = "Cat detected"

HasWeightRecorded(activity) == activity = "Weight recorded"

(***************************************************************************)
(* Reasons (flag_reason).  A reason is its text template plus the values   *)
(* interpolated into it; the empty reason has the empty template.          *)
(***************************************************************************)
Rsn(text, name, w, m) == [text |-> text, name |-> name, w |-> w, m |-> m]

NoReason == Rsn("", "", 0, 0)

\* f"{x:.1f}" of a difference: tenths of a pound, to nearest.
FormatTenths(d) == (d + 500) \div 1000

Abs(x) == IF x < 0 THEN -x ELSE x

(***************************************************************************)
(* classify_row                                                            *)
(***************************************************************************)
RECURSIVE NearestLoop(_, _, _, _, _)
NearestLoopLE(weight, profiles, i, best_match, closest_diff) ==
    IF i > Len(profiles) THEN [best_match |-> best_match, closest_diff |-> closest_diff]
    ELSE LET diff == Abs(weight - profiles[i].target_weight)
         IN  IF diff <= closest_diff
             THEN NearestLoop(weight, profiles, i + 1, profiles[i].name, diff)
             ELSE NearestLoop(weight, profiles, i + 1, best_match, closest_diff)

NearestLoop(weight, profiles, i, best_match, closest_diff) ==
    IF i > Len(profiles) THEN [best_match |-> best_match, closest_diff |-> closest_diff]
    ELSE LET diff == Abs(weight - profiles[i].target_weight)
         IN  IF diff < closest_diff
             THEN NearestLoop(weight, profiles, i + 1, profiles[i].name, diff)
             ELSE NearestLoop(weight, profiles, i + 1, best_match, closest_diff)

Validation(near) ==
    IF near.closest_diff <= WEIGHT_TOLERANCE
    THEN [cat |-> near.best_match, reason |-> NoReason]
    ELSE [cat |-> "Unknown",
          reason |-> Rsn("No match within 2.0lbs (Closest: @ diff)",
                         near.best_match, FormatTenths(near.closest_diff), 0)]

classify_row(row, profiles) ==
    IF HasSysKeyword(row.activity)
    THEN [cat |-> "System", reason |-> Rsn("Machine Operation", "", 0, 0)]
    ELSE IF HasCatDetected(row.activity) /\ row.weight < MinWeight
    THEN [cat |-> "Unknown", reason |-> Rsn("Motion detected (No weight)", "", 0, 0)]
    ELSE IF row.weight < MinWeight
    THEN [cat |-> "Error", reason |-> Rsn("Weight too low ( lbs)", "", row.weight, 0)]
    ELSE Validation(NearestLoop(row.weight, profiles, 1, "Unknown", InitialClosestDiff))

(***************************************************************************)
(* Log parser (upload_file, per row)                                       *)
(***************************************************************************)
MonthStart == <<0, 31, 59, 90, 120, 151, 181, 212, 243, 273, 304, 334>>

MonthDays == <<31, 28, 31, 30, 31, 30, 31, 31, 30, 31, 30, 31>>

RawTs(month, day, hour, minute, mer) ==
    [month |-> month, day |-> day, hour |-> hour, minute |-> minute, mer |-> mer]

RawVal(unit, numeric, num) == [unit |-> unit, numeric |-> numeric, num |-> num]

RawRow(activity, ts, val) == [activity |-> activity, ts |-> ts, val |-> val]

Hour24(ts) ==
    IF ts.mer = "pm" /\ ts.hour # 12 THEN ts.hour + 12
    ELSE IF ts.mer = "am" /\ ts.hour = 12 THEN 0
    ELSE ts.hour

\* datetime(current_year, month, day, hour, minute) raises on an impossible date.
ValidDate(ts) ==
    /\ ts.month \in 1..12
    /\ ts.day >= 1 /\ ts.day <= MonthDays[ts.month]
    /\ Hour24(ts) \in 0..23
    /\ ts.minute \in 0..59

\* float(...) raises when the text before 'lbs' is not a number.
ValidVal(val) == val.unit => val.numeric

ParseDt(ts) ==
    ((MonthStart[ts.month] + ts.day - 1) * 24 + Hour24(ts)) * Hour
        + ts.minute * Minute - TIMEZONE_OFFSET * Hour

ParseWeight(val) == IF val.unit THEN val.num ELSE 0

DateOf(dt) == dt \div Day

TimeOf(dt) == dt % Day

ParsedRow(raw) ==
    LET dt == ParseDt(raw.ts)
    IN  [dt |-> dt, timestamp |-> dt, date |-> DateOf(dt), time |-> TimeOf(dt),
         activity |-> raw.activity, weight |-> ParseWeight(raw.val), raw_val |-> raw.val]

(***************************************************************************)
(* Ledger rows                                                             *)
(***************************************************************************)
Event(timestamp, weight, activity, metadata, cat_identity, flag_reason) ==
    [timestamp |-> timestamp, date |-> DateOf(timestamp), time |-> TimeOf(timestamp),
     weight |-> weight, activity |-> activity, metadata |-> metadata,
     cat_identity |-> cat_identity, flag_reason |-> flag_reason]

BlacklistEntry(timestamp, weight, reason) ==
    [timestamp |-> timestamp, weight |-> weight, reason |-> reason]

Profile(name, target_weight) == [name |-> name, target_weight |-> target_weight]

Flash(category, message, n) == [category |-> category, message |-> message, n |-> n]

HasTimestamp(logs, ts) == \E e \in logs : e.timestamp = ts

RowAt(logs, ts) == CHOOSE e \in logs : e.timestamp = ts

\* The key f"{timestamp}|{weight}" is one-to-one on (timestamp, weight).
BlacklistKey(timestamp, weight) == <<timestamp, weight>>

blacklist_set(bl) == {BlacklistKey(bl[k].timestamp, bl[k].weight) : k \in 1..Len(bl)}

(***************************************************************************)
(* upload_file: parse, drop, sort, classify with look-ahead, insert        *)
(***************************************************************************)
KeepNoBlacklist(raw, bl) == ValidDate(raw.ts) /\ ValidVal(raw.val)

Keep(raw, bl) ==
    /\ ValidDate(raw.ts)
    /\ ValidVal(raw.val)
    /\ BlacklistKey(ParseDt(raw.ts), ParseWeight(raw.val)) \notin blacklist_set(bl)

RECURSIVE ParseFile(_, _)
ParseFile(file, bl) ==
    IF file = <<>> THEN <<>>
    ELSE IF Keep(Head(file), bl)
         THEN <<ParsedRow(Head(file))>> \o ParseFile(Tail(file), bl)
         ELSE ParseFile(Tail(file), bl)

\* list.sort(key=dt) is stable: equal keys keep file order.
RECURSIVE InsertSorted(_, _)
InsertSorted(sorted, row) ==
    IF sorted = <<>> THEN <<row>>
    ELSE IF row.dt < Head(sorted).dt THEN <<row>> \o sorted
    ELSE <<Head(sorted)>> \o InsertSorted(Tail(sorted), row)

RECURSIVE SortByDt(_)
SortByDt(rows) ==
    IF rows = <<>> THEN <<>>
    ELSE InsertSorted(SortByDt(SubSeq(rows, 1, Len(rows) - 1)), rows[Len(rows)])

Min(a, b) == IF a < b THEN a ELSE b

Max(a, b) == IF a > b THEN a ELSE b

\* range(i + 1, min(i + 20, len(parsed_rows))) in 1-based indices.
LookAheadLast(i, n) == Min(i + LookAheadRows, n + 1) - 1

\* Index of the adopted future row, or 0 when the scan ends without one.
RECURSIVE LookAhead(_, _, _, _)
LookAhead(rows, i, j, last) ==
    IF j > last THEN 0
    ELSE IF rows[j].dt - rows[i].dt > LookAheadMinutes * Minute THEN 0
    ELSE IF HasWeightRecorded(rows[j].activity) /\ rows[j].weight > MinWeight THEN j
    ELSE LookAhead(rows, i, j + 1, last)

Correlate(rows, i, profiles) ==
    LET own == classify_row(rows[i], profiles)
    IN  IF ~HasCatDetected(rows[i].activity) THEN own
        ELSE LET j == LookAhead(rows, i, i + 1, LookAheadLast(i, Len(rows)))
                 cat_id == IF j = 0 THEN own.cat ELSE classify_row(rows[j], profiles).cat
                 reason == IF j = 0 THEN own.reason
                           ELSE Rsn("Matched w/ lbs (+m)", "", rows[j].weight,
                                    (rows[j].dt - rows[i].dt) \div Minute)
             IN  IF cat_id = "Unknown"
                 THEN [cat |-> cat_id, reason |-> Rsn("No weight found in 7m", "", 0, 0)]
                 ELSE [cat |-> cat_id, reason |-> reason]

\* INSERT with PRIMARY KEY(timestamp); IntegrityError is swallowed.
InsertReplace(acc, ev) ==
    [logs |-> {e \in acc.logs : e.timestamp # ev.timestamp} \cup {ev}, added |-> acc.added + 1]

InsertEvent(acc, ev) ==
    IF HasTimestamp(acc.logs, ev.timestamp) THEN acc
    ELSE [logs |-> acc.logs \cup {ev}, added |-> acc.added + 1]

RECURSIVE InsertLoop(_, _, _, _)
InsertLoop(rows, i, profiles, acc) ==
    IF i > Len(rows) THEN acc
    ELSE LET c == Correlate(rows, i, profiles)
             ev == Event(rows[i].timestamp, rows[i].weight, rows[i].activity,
                         <<rows[i].raw_val>>, c.cat, c.reason)
         IN  InsertLoop(rows, i + 1, profiles, InsertEvent(acc, ev))

Ingest(logs, bl, profiles, file) ==
    InsertLoop(SortByDt(ParseFile(file, bl)), 1, profiles, [logs |-> logs, added |-> 0])

upload_file(file) ==
    IF Len(cat_profiles) = 0
    THEN /\ flash' = Flash("error", "You must add a Cat Profile before uploading data!", 0)
         /\ UNCHANGED <<usage_logs, data_blacklist, cat_profiles, upload_history, tmpfile, ret>>
    ELSE LET r == Ingest(usage_logs, data_blacklist, cat_profiles, file)
         IN  /\ tmpfile' = file
             /\ usage_logs' = r.logs
             /\ upload_history' = Append(upload_history, [entries_added |-> r.added])
             /\ flash' = Flash("success", "Upload Successful! Added records.", r.added)
             /\ UNCHANGED <<data_blacklist, cat_profiles, ret>>

(***************************************************************************)
(* manage_cats                                                             *)
(***************************************************************************)
RECURSIVE RemoveProfile(_, _)
RemoveProfile(profiles, name) ==
    IF profiles = <<>> THEN <<>>
    ELSE IF Head(profiles).name = name THEN RemoveProfile(Tail(profiles), name)
    ELSE <<Head(profiles)>> \o RemoveProfile(Tail(profiles), name)

manage_cats_add(name, weight) ==
    IF \E k \in 1..Len(cat_profiles) : cat_profiles[k].name = name
    THEN /\ flash' = Flash("error", "Cat name already exists.", 0)
         /\ UNCHANGED <<usage_logs, data_blacklist, cat_profiles, upload_history, tmpfile, ret>>
    ELSE /\ cat_profiles' = Append(cat_profiles, Profile(name, weight))
         /\ flash' = Flash("success", "Added !", 0)
         /\ UNCHANGED <<usage_logs, data_blacklist, upload_history, tmpfile, ret>>

manage_cats_delete_cascade(name) ==
    /\ cat_profiles' = RemoveProfile(cat_profiles, name)
    /\ usage_logs' = {e \in usage_logs : e.cat_identity # name}
    /\ flash' = Flash("warning", "Deleted profile for . History remains.", 0)
    /\ UNCHANGED <<data_blacklist, upload_history, tmpfile, ret>>

manage_cats_delete(name) ==
    /\ cat_profiles' = RemoveProfile(cat_profiles, name)
    /\ flash' = Flash("warning", "Deleted profile for . History remains.", 0)
    /\ UNCHANGED <<usage_logs, data_blacklist, upload_history, tmpfile, ret>>

(***************************************************************************)
(* fix_entry                                                               *)
(***************************************************************************)
RECURSIVE RemoveBlacklisted(_, _)
RemoveBlacklisted(bl, ts) ==
    IF bl = <<>> THEN <<>>
    ELSE IF Head(bl).timestamp = ts THEN RemoveBlacklisted(Tail(bl), ts)
    ELSE <<Head(bl)>> \o RemoveBlacklisted(Tail(bl), ts)

\* fetchone() of SELECT ... WHERE timestamp = ?: the first row in rowid order.
FirstBlacklisted(bl, ts) == bl[CHOOSE k \in 1..Len(bl) :
                                 /\ bl[k].timestamp = ts
                                 /\ \A m \in 1..(k - 1) : bl[m].timestamp # ts]

IsBlacklisted(bl, ts) == \E k \in 1..Len(bl) : bl[k].timestamp = ts

fix_delete(timestamp_id) ==
    /\ usage_logs' = {e \in usage_logs : e.timestamp # timestamp_id}
    /\ flash' = Flash("success", "Deleted record.", 0)
    /\ UNCHANGED <<data_blacklist, cat_profiles, upload_history, tmpfile, ret>>

fix_blacklist_keep(timestamp_id) ==
    IF HasTimestamp(usage_logs, timestamp_id)
    THEN LET row == RowAt(usage_logs, timestamp_id)
         IN  /\ data_blacklist' =
                    Append(data_blacklist, BlacklistEntry(row.timestamp, row.weight, row.activity))
             /\ flash' = Flash("warning", "Blacklisted record.", 0)
             /\ UNCHANGED <<usage_logs, cat_profiles, upload_history, tmpfile, ret>>
    ELSE /\ flash' = Flash("error", "Could not find record to blacklist.", 0)
         /\ UNCHANGED <<usage_logs, data_blacklist, cat_profiles, upload_history, tmpfile, ret>>

fix_blacklist(timestamp_id) ==
    IF HasTimestamp(usage_logs, timestamp_id)
    THEN LET row == RowAt(usage_logs, timestamp_id)
         IN  /\ data_blacklist' =
                    Append(data_blacklist, BlacklistEntry(row.timestamp, row.weight, row.activity))
             /\ usage_logs' = {e \in usage_logs : e.timestamp # timestamp_id}
             /\ flash' = Flash("warning", "Blacklisted record.", 0)
             /\ UNCHANGED <<cat_profiles, upload_history, tmpfile, ret>>
    ELSE /\ flash' = Flash("error", "Could not find record to blacklist.", 0)
         /\ UNCHANGED <<usage_logs, data_blacklist, cat_profiles, upload_history, tmpfile, ret>>

RestoredEventUnflagged(row) ==
    Event(row.timestamp, row.weight, row.reason, <<>>, "Unknown", NoReason)

RestoredEvent(row) ==
    Event(row.timestamp, row.weight, row.reason, <<>>, "Unknown",
          Rsn("Restored from Blacklist", "", 0, 0))

\* The INSERT raises IntegrityError on an active timestamp before the DELETE runs.
RestoreBlockedNever(logs, ts) == FALSE

RestoreBlocked(logs, ts) == HasTimestamp(logs, ts)

fix_restore(timestamp_id) ==
    IF IsBlacklisted(data_blacklist, timestamp_id)
    THEN LET row == FirstBlacklisted(data_blacklist, timestamp_id)
         IN  IF RestoreBlocked(usage_logs, row.timestamp)
             THEN /\ flash' = Flash("error", "Error restoring: ", 0)
                  /\ UNCHANGED <<usage_logs, data_blacklist, cat_profiles, upload_history,
                                 tmpfile, ret>>
             ELSE /\ usage_logs' = usage_logs \cup {RestoredEvent(row)}
                  /\ data_blacklist' = RemoveBlacklisted(data_blacklist, timestamp_id)
                  /\ flash' = Flash("success", "Restored record.", 0)
                  /\ UNCHANGED <<cat_profiles, upload_history, tmpfile, ret>>
    ELSE /\ flash' = Flash("error", "Restore Failed: Could not find blacklist ID", 0)
         /\ UNCHANGED <<usage_logs, data_blacklist, cat_profiles, upload_history, tmpfile, ret>>

fix_reassign(timestamp_id, action) ==
    /\ usage_logs' = {IF e.timestamp = timestamp_id
                      THEN [e EXCEPT !.cat_identity = action, !.flag_reason = NoReason]
                      ELSE e : e \in usage_logs}
    /\ flash' = Flash("success", "Re-assigned to ", 0)
    /\ UNCHANGED <<data_blacklist, cat_profiles, upload_history, tmpfile, ret>>

fix_entry(timestamp_id, action) ==
    IF action = "delete" THEN fix_delete(timestamp_id)
    ELSE IF action = "blacklist" THEN fix_blacklist(timestamp_id)
    ELSE IF action = "restore" THEN fix_restore(timestamp_id)
    ELSE fix_reassign(timestamp_id, action)

(***************************************************************************)
(* The ledger under uploads, corrections and profile management            *)
(***************************************************************************)
MaxUploads == 2

MaxBatch == 2

T1 == RawTs(3, 1, 10, 0, "am")

T2 == RawTs(3, 1, 10, 5, "am")

NoVal == RawVal(FALSE, FALSE, 0)

Lbs91 == RawVal(TRUE, TRUE, 91000)

BadVal == RawVal(TRUE, FALSE, 0)

Names == {"Luna"}

TargetWeights == {90000}

Identities == {"Milo"}

RawRows ==
    {RawRow("Cat detected", T1, NoVal), RawRow("Weight recorded", T1, Lbs91),
     RawRow("Weight recorded", T2, Lbs91)}

RECURSIVE SeqsUpTo(_, _)
SeqsUpTo(S, n) ==
    IF n = 0 THEN {<<>>}
    ELSE LET shorter == SeqsUpTo(S, n - 1)
         IN  shorter \cup {Append(q, x) : q \in {r \in shorter : Len(r) = n - 1}, x \in S}

Files == SeqsUpTo(RawRows, MaxBatch)

TimestampIds == {ParseDt(T1), ParseDt(T2)}

NoRet == [view |-> "none"]

\* init_db on a fresh data folder: empty tables.
Init ==
    /\ usage_logs = {}
    /\ data_blacklist = <<>>
    /\ cat_profiles = <<>>
    /\ upload_history = <<>>
    /\ tmpfile = <<>>
    /\ flash = Flash("", "", 0)
    /\ ret = NoRet

Upload == \E file \in Files : Len(upload_history) < MaxUploads /\ upload_file(file)

AddCat == \E name \in Names, weight \in TargetWeights : manage_cats_add(name, weight)

DeleteCat == \E name \in Names : manage_cats_delete(name)

Fix ==
    \E ts \in TimestampIds, action \in {"delete", "blacklist", "restore"} \cup Identities :
        fix_entry(ts, action)

Next == Upload \/ AddCat \/ DeleteCat \/ Fix

Spec == Init /\ [][Next]_vars

(***************************************************************************)
(* Ledger properties                                                       *)
(***************************************************************************)
UploadOk == "Upload Successful! Added records."

UniqueTimestamps(logs) == \A e1, e2 \in logs : e1.timestamp = e2.timestamp => e1 = e2

\* A step that uploads again the file saved by the upload just before it.
ReUpload ==
    /\ flash.message = UploadOk
    /\ flash'.message = UploadOk
    /\ Len(upload_history') = Len(upload_history) + 1
    /\ tmpfile' = tmpfile

\* C1: uploading the same batch twice in a row leaves every stored Event as it was
\* after the first upload, the second upload adds zero Events, and the ledger
\* never holds two Events with one timestamp.
C1_Idempotent ==
    /\ [](UniqueTimestamps(usage_logs))
    /\ [](\A file \in Files :
            LET once == Ingest(usage_logs, data_blacklist, cat_profiles, file)
            IN  Ingest(once.logs, data_blacklist, cat_profiles, file)
                    = [logs |-> once.logs, added |-> 0])
    /\ [][ReUpload =>
            /\ usage_logs' = usage_logs
            /\ flash'.n = 0
            /\ upload_history'[Len(upload_history')].entries_added = 0]_vars

FileTimestamps(file) == {ParseDt(file[k].ts) : k \in 1..Len(file)}

C1_Witness ==
    /\ flash = Flash("success", UploadOk, 0)
    /\ upload_history = <<[entries_added |-> 2], [entries_added |-> 0]>>
    /\ Len(tmpfile) = 2
    /\ {e.timestamp : e \in usage_logs} = FileTimestamps(tmpfile)

\* C2: while a (timestamp, weight) pair is on the blacklist, no active Event
\* carries that pair, whatever has been uploaded since it was blacklisted.
C2_BlacklistSuppression ==
    \A k \in 1..Len(data_blacklist) :
        ~\E e \in usage_logs :
            /\ e.timestamp = data_blacklist[k].timestamp
            /\ e.weight = data_blacklist[k].weight

C2_Witness ==
    /\ flash.message = UploadOk
    /\ flash.n >= 1
    /\ \E k \in 1..Len(data_blacklist), i \in 1..Len(tmpfile) :
            /\ ParseDt(tmpfile[i].ts) = data_blacklist[k].timestamp
            /\ ParseWeight(tmpfile[i].val) = data_blacklist[k].weight
            /\ ~\E e \in usage_logs : e.timestamp = data_blacklist[k].timestamp

RestoreApplies(ts) == IsBlacklisted(data_blacklist, ts) /\ ~HasTimestamp(usage_logs, ts)

\* C3: restoring a timestamp that is blacklisted and not active puts back one
\* active Event with that timestamp, the blacklisted weight and activity,
\* identity Unknown and reason 'Restored from Blacklist', leaves every other
\* Event alone, and removes the timestamp from the blacklist.
C3_Restore ==
    [][\A ts \in TimestampIds :
          (RestoreApplies(ts) /\ fix_entry(ts, "restore")) =>
              /\ \E e \in usage_logs' :
                    /\ e.timestamp = ts
                    /\ \E k \in 1..Len(data_blacklist) :
                          /\ data_blacklist[k].timestamp = ts
                          /\ e.weight = data_blacklist[k].weight
                          /\ e.activity = data_blacklist[k].reason
                    /\ e.cat_identity = "Unknown"
                    /\ e.flag_reason.text = "Restored from Blacklist"
                    /\ usage_logs' \ {e} = usage_logs
              /\ UniqueTimestamps(usage_logs')
              /\ ~IsBlacklisted(data_blacklist', ts)
              /\ flash'.category = "success"]_vars

C3_Witness ==
    /\ flash.message = "Restored record."
    /\ \E e \in usage_logs :
          /\ e.flag_reason.text = "Restored from Blacklist"
          /\ e.cat_identity = "Unknown"
          /\ e.weight = 91000
          /\ ~IsBlacklisted(data_blacklist, e.timestamp)

\* C9: deleting a profile leaves every stored Event and every blacklist entry
\* unchanged in every field.
C9_DeleteProfileFrame ==
    [][flash'.message = "Deleted profile for . History remains." =>
          usage_logs' = usage_logs /\ data_blacklist' = data_blacklist]_vars

C9_Witness ==
    /\ flash.message = "Deleted profile for . History remains."
    /\ \A k \in 1..Len(cat_profiles) : cat_profiles[k].name # "Luna"
    /\ \E e \in usage_logs : e.cat_identity = "Luna"
    /\ Len(data_blacklist) > 0

RestoreFailures == {"Error restoring: ", "Restore Failed: Could not find blacklist ID"}

\* C10: a restore request for a timestamp that has no blacklist entry, or that is
\* already active, ends with an error and leaves the active Events and the
\* blacklist as they were; right after it a correction on an active timestamp
\* still takes effect.
C10_FailedRestore ==
    /\ [][\A ts \in TimestampIds :
            (~RestoreApplies(ts) /\ fix_entry(ts, "restore")) =>
                /\ flash'.category = "error"
                /\ flash'.message \in RestoreFailures
                /\ usage_logs' = usage_logs
                /\ data_blacklist' = data_blacklist]_vars
    /\ [](flash.message \in RestoreFailures =>
            \A ts \in TimestampIds :
                HasTimestamp(usage_logs, ts) =>
                    ENABLED (fix_entry(ts, "blacklist") /\ ~HasTimestamp(usage_logs', ts)
                                /\ IsBlacklisted(data_blacklist', ts)))

C10_Witness ==
    /\ flash = Flash("error", "Error restoring: ", 0)
    /\ \E ts \in TimestampIds : IsBlacklisted(data_blacklist, ts) /\ HasTimestamp(usage_logs, ts)
    /\ \E ts \in TimestampIds : ~IsBlacklisted(data_blacklist, ts) /\ HasTimestamp(usage_logs, ts)

\* C16 as stated: no timestamp is at once the key of an active Event and the
\* timestamp of a blacklist entry, and the blacklist holds at most one entry per
\* timestamp.
C16_TimestampSuppression ==
    /\ \A e \in usage_logs : ~IsBlacklisted(data_blacklist, e.timestamp)
    /\ \A k, m \in 1..Len(data_blacklist) :
          data_blacklist[k].timestamp = data_blacklist[m].timestamp => k = m

PairOf(r) == BlacklistKey(r.timestamp, r.weight)

\* C16 amended: no (timestamp, weight) pair is at once that of an active Event
\* and of a blacklist entry, and the blacklist holds at most one entry per pair;
\* blacklisting an active timestamp removes its Event and appends an entry with
\* the Event's timestamp, weight and activity; an upload adds no Event whose pair
\* is blacklisted.
C16_PairSuppression ==
    /\ [](\A e \in usage_logs : PairOf(e) \notin blacklist_set(data_blacklist))
    /\ [](\A k, m \in 1..Len(data_blacklist) :
            PairOf(data_blacklist[k]) = PairOf(data_blacklist[m]) => k = m)
    /\ [][\A ts \in TimestampIds :
            (HasTimestamp(usage_logs, ts) /\ fix_entry(ts, "blacklist")) =>
                /\ ~HasTimestamp(usage_logs', ts)
                /\ usage_logs' = usage_logs \ {RowAt(usage_logs, ts)}
                /\ data_blacklist' = Append(data_blacklist,
                       [timestamp |-> ts, weight |-> RowAt(usage_logs, ts).weight,
                        reason |-> RowAt(usage_logs, ts).activity])]_vars
    /\ [][flash'.message = UploadOk =>
            /\ data_blacklist' = data_blacklist
            /\ \A e \in usage_logs' \ usage_logs :
                  PairOf(e) \notin blacklist_set(data_blacklist)]_vars

\* A timestamp blacklisted with one weight and active again with another,
\* admitted by the upload just made.
C16_Witness ==
    /\ flash.message = UploadOk
    /\ flash.n >= 1
    /\ \E e \in usage_logs, k \in 1..Len(data_blacklist) :
          /\ data_blacklist[k].timestamp = e.timestamp
          /\ data_blacklist[k].weight # e.weight

(***************************************************************************)
(* classify_row on its own: one parsed row against a profile list          *)
(***************************************************************************)
MaxProfiles == 3

ClassifierProfiles ==
    {Profile("Luna", 90000), Profile("Milo", 130000), Profile("Nala", 90000)}

ClassifierWeights ==
    {4999, 5000, 69999, 70000, 90000, 110000, 110001, 150000, 150001,
     1088999, 1089000, 1500000}

ClassifierRows ==
    {RawRow(a, T1, RawVal(TRUE, TRUE, w)) :
        a \in {"Weight recorded", "Cat detected"}, w \in ClassifierWeights}
        \cup {RawRow("Clean Cycle Complete", T1, NoVal), RawRow("Cat detected", T1, NoVal),
              RawRow("Weight recorded", T1, BadVal)}

DistinctNames(profiles) ==
    \A a, b \in 1..Len(profiles) : a # b => profiles[a].name # profiles[b].name

\* cat_profiles has PRIMARY KEY(name); rows come back in insertion order.
ProfileLists == {p \in SeqsUpTo(ClassifierProfiles, MaxProfiles) : DistinctNames(p)}

InitClassify ==
    /\ usage_logs = {}
    /\ data_blacklist = <<>>
    /\ cat_profiles \in ProfileLists
    /\ upload_history = <<>>
    /\ tmpfile \in {<<r>> : r \in ClassifierRows}
    /\ flash = Flash("", "", 0)
    /\ ret = NoRet

Classify ==
    \E i \in 1..Len(ParseFile(tmpfile, data_blacklist)) :
        LET row == ParseFile(tmpfile, data_blacklist)[i]
            r == classify_row(row, cat_profiles)
        IN  /\ ret' = [view |-> "classify_row", row |-> row, cat |-> r.cat, reason |-> r.reason]
            /\ UNCHANGED <<usage_logs, data_blacklist, cat_profiles, upload_history,
                           tmpfile, flash>>

NextClassify == Classify

SpecClassify == InitClassify /\ [][NextClassify]_vars

\* Profiles at the smallest |weight - target_weight|, by list position.
Nearest(weight, profiles) ==
    {k \in 1..Len(profiles) :
        \A m \in 1..Len(profiles) :
            Abs(weight - profiles[k].target_weight) <= Abs(weight - profiles[m].target_weight)}

MinOf(S) == CHOOSE x \in S : \A y \in S : x <= y

Classified == ret.view = "classify_row"

WeighedRow ==
    /\ Classified
    /\ ~HasSysKeyword(ret.row.activity)
    /\ ret.row.weight >= MinWeight
    /\ Len(cat_profiles) > 0

NearestDiff == Abs(ret.row.weight - cat_profiles[MinOf(Nearest(ret.row.weight, cat_profiles))].target_weight)

NearestNames == {cat_profiles[k].name : k \in Nearest(ret.row.weight, cat_profiles)}

\* C4: for a non-system activity, a weight of at least 0.5 lb and P the nearest
\* profile, the row is classified as P with an empty reason when
\* |weight - P.target_weight| <= 2.0, and as Unknown with a non-empty reason that
\* names P as the closest candidate whenever the difference exceeds 2.0.
C4_ToleranceBoundary ==
    WeighedRow =>
        IF NearestDiff <= WEIGHT_TOLERANCE
        THEN ret.cat \in NearestNames /\ ret.reason = NoReason
        ELSE /\ ret.cat = "Unknown"
             /\ ret.reason # NoReason
             /\ ret.reason.name \in NearestNames

\* C5: when several profiles share the smallest difference and it is within
\* tolerance, classify_row returns the one that comes first in the profile list.
C5_TieKeepsFirst ==
    (WeighedRow /\ NearestDiff <= WEIGHT_TOLERANCE) =>
        ret.cat = cat_profiles[MinOf(Nearest(ret.row.weight, cat_profiles))].name

C5_Witness ==
    /\ WeighedRow
    /\ NearestDiff <= WEIGHT_TOLERANCE
    /\ Cardinality(Nearest(ret.row.weight, cat_profiles)) >= 2
    /\ Cardinality({cat_profiles[k].target_weight : k \in Nearest(ret.row.weight, cat_profiles)}) >= 2
    /\ ret.cat = cat_profiles[MinOf(Nearest(ret.row.weight, cat_profiles))].name

(***************************************************************************)
(* Read-only views: dashboard, analysis, report                            *)
(***************************************************************************)
\* datetime.now() of the request: 2 March, 12:00:00.
NowDt == 60 * Day + 12 * Hour

ThirtyDaysAgo == NowDt - 30 * Day

\* ORDER BY timestamp ASC
RECURSIVE OrderByTimestamp(_)
OrderByTimestamp(rows) ==
    IF rows = {} THEN <<>>
    ELSE LET first == CHOOSE e \in rows : \A o \in rows : e.timestamp <= o.timestamp
         IN  <<first>> \o OrderByTimestamp(rows \ {first})

\* The visit loop: a row opens a visit when there is none yet or when it lies more
\* than 10 minutes after last_time; last_time moves only when a visit opens.
\* (dashboard 166-171; analysis 392-395 and report 627-630 repeat the same loop.)
RECURSIVE VisitLoop(_, _, _, _)
VisitLoopAnchorAdvances(df, i, visits, last_time) ==
    IF i > Len(df) THEN visits
    ELSE IF last_time = <<>> THEN VisitLoop(df, i + 1, visits + 1, <<df[i].timestamp>>)
    ELSE IF df[i].timestamp - last_time[1] > SessionGapMinutes * Minute
    THEN VisitLoop(df, i + 1, visits + 1, <<df[i].timestamp>>)
    ELSE VisitLoop(df, i + 1, visits, <<df[i].timestamp>>)

VisitLoopGapInclusive(df, i, visits, last_time) ==
    IF i > Len(df) THEN visits
    ELSE IF last_time = <<>> THEN VisitLoop(df, i + 1, visits + 1, <<df[i].timestamp>>)
    ELSE IF df[i].timestamp - last_time[1] >= SessionGapMinutes * Minute
    THEN VisitLoop(df, i + 1, visits + 1, <<df[i].timestamp>>)
    ELSE VisitLoop(df, i + 1, visits, last_time)

VisitLoop(df, i, visits, last_time) ==
    IF i > Len(df) THEN visits
    ELSE IF last_time = <<>> THEN VisitLoop(df, i + 1, visits + 1, <<df[i].timestamp>>)
    ELSE IF df[i].timestamp - last_time[1] > SessionGapMinutes * Minute
    THEN VisitLoop(df, i + 1, visits + 1, <<df[i].timestamp>>)
    ELSE VisitLoop(df, i + 1, visits, last_time)

CountVisits(df) == VisitLoop(df, 1, 0, <<>>)

\* round(a / b, 1) in tenths.
RoundTenths(a, b) == (20 * a + b) \div (2 * b)

\* sorted(df['date_str'].unique())
RECURSIVE SortedInts(_)
SortedInts(S) ==
    IF S = {} THEN <<>>
    ELSE LET m == CHOOSE x \in S : \A y \in S : x <= y
         IN  <<m>> \o SortedInts(S \ {m})

DaysOf(df) == SortedInts({df[k].date : k \in 1..Len(df)})

ProfileNames(profiles) == [k \in 1..Len(profiles) |-> profiles[k].name]

LastWeight(df) ==
    LET valid == SelectSeq(df, LAMBDA e : e.weight > MinWeight)
    IN  IF valid = <<>> THEN <<>> ELSE <<valid[Len(valid)].weight>>

Trend(df, cat_name) ==
    LET cat_df == SelectSeq(df, LAMBDA e : e.cat_identity = cat_name)
        recent_df == SelectSeq(cat_df, LAMBDA e : e.timestamp > ThirtyDaysAgo)
        true_visits == CountVisits(recent_df)
        divisor == IF recent_df = <<>> THEN 1
                   ELSE Max(1, Min((NowDt - recent_df[1].timestamp) \div Day + 1, 30))
    IN  [current |-> IF LastWeight(cat_df) = <<>> THEN 0 ELSE LastWeight(cat_df)[1],
         visits_total |-> true_visits,
         avg_daily |-> IF recent_df = <<>> THEN 0 ELSE RoundTenths(true_visits, divisor)]

dashboard ==
    LET df == OrderByTimestamp({e \in usage_logs : e.timestamp >= YearStart})
        recent == {e \in usage_logs : e.timestamp > ThirtyDaysAgo}
        names == ProfileNames(cat_profiles)
    IN  /\ ret' = [view |-> "dashboard",
                   trends |-> [k \in 1..Len(names) |->
                                 [name |-> names[k]] @@ Trend(df, names[k])],
                   cycle_count |-> IF df = <<>> THEN 0 ELSE
                       Cardinality({e \in recent : e.activity \in
                           {"Clean Cycle In Progress", "Clean Cycle Complete"}}),
                   interrupt_count |-> IF df = <<>> THEN 0 ELSE
                       Cardinality({e \in recent : e.activity = "Cycle interrupted"}),
                   review_count |-> IF df = <<>> THEN 0 ELSE
                       Cardinality({e \in usage_logs :
                           /\ \/ e.flag_reason # NoReason
                              \/ e.cat_identity \in {"Error", "Unknown"}
                           /\ e.cat_identity # "System"})]
        /\ UNCHANGED <<usage_logs, data_blacklist, cat_profiles, upload_history, tmpfile, flash>>

\* round(duration_sec / 60, 2) in hundredths of a minute.
DurationPoint(start_row, end_row) ==
    [x |-> start_row.timestamp,
     y |-> (200 * (end_row.timestamp - start_row.timestamp) + 60) \div 120]

CycleValidNoInterruptCheck(df, start_row, end_row) ==
    LET duration_sec == end_row.timestamp - start_row.timestamp
    IN  CycleMinSeconds < duration_sec /\ duration_sec < CycleMaxSeconds

CycleValid(df, start_row, end_row) ==
    LET duration_sec == end_row.timestamp - start_row.timestamp
        interrupted == SelectSeq(df, LAMBDA e :
                           /\ e.timestamp > start_row.timestamp
                           /\ e.timestamp < end_row.timestamp
                           /\ e.activity = "Cycle interrupted")
    IN  /\ interrupted = <<>>
        /\ CycleMinSeconds < duration_sec
        /\ duration_sec < CycleMaxSeconds

RECURSIVE MachineLoop(_, _, _, _)
MachineLoop(df, cycle_start, cycle_end, k) ==
    IF k > Len(cycle_end) THEN <<>>
    ELSE LET end_row == cycle_end[k]
             start_candidates == SelectSeq(cycle_start, LAMBDA e : e.timestamp < end_row.timestamp)
             rest == MachineLoop(df, cycle_start, cycle_end, k + 1)
         IN  IF start_candidates = <<>> THEN rest
             ELSE LET start_row == start_candidates[Len(start_candidates)]
                  IN  IF CycleValid(df, start_row, end_row)
                      THEN <<DurationPoint(start_row, end_row)>> \o rest
                      ELSE rest

machine_health(df) ==
    MachineLoop(df, SelectSeq(df, LAMBDA e : e.activity = "Clean Cycle In Progress"),
                SelectSeq(df, LAMBDA e : e.activity = "Clean Cycle Complete"), 1)

\* Visits per day of the rows of one identity.
DailyCounts(cat_df, days) ==
    [d \in 1..Len(days) |-> CountVisits(SelectSeq(cat_df, LAMBDA e : e.date = days[d]))]

RECURSIVE SumSeq(_)
SumSeq(q) == IF q = <<>> THEN 0 ELSE Head(q) + SumSeq(Tail(q))

\* colors.keys() without 'System': the profiles in table order, then 'Unknown'.
ColorKeys(profiles) ==
    LET names == ProfileNames(profiles)
    IN  IF \E k \in 1..Len(names) : names[k] = "Unknown" THEN names
        ELSE Append(names, "Unknown")

freq_data(df, profiles) ==
    LET days == DaysOf(df)
        keys == SelectSeq(ColorKeys(profiles), LAMBDA c : c # "System")
        all == [k \in 1..Len(keys) |->
                  [label |-> keys[k],
                   data |-> DailyCounts(SelectSeq(df, LAMBDA e : e.cat_identity = keys[k]), days)]]
    IN  [labels |-> days, datasets |-> SelectSeq(all, LAMBDA ds : SumSeq(ds.data) > 0)]

\* The latest motion Event of the window before a cycle start, of any identity.
LastCat(df, start_row) ==
    LET virtual_exit == start_row.timestamp - VirtualExitMinutes * Minute
        window_start == virtual_exit - DwellWindowMinutes * Minute
        candidates == SelectSeq(df, LAMBDA e :
                          /\ e.timestamp >= window_start
                          /\ e.timestamp <= virtual_exit
                          /\ HasCatDetected(e.activity))
    IN  IF candidates = <<>> THEN <<>> ELSE <<candidates[Len(candidates)]>>

RECURSIVE DwellLoop(_, _, _, _)
DwellLoop(df, cycle_start, k, cat) ==
    IF k > Len(cycle_start) THEN <<>>
    ELSE LET start_row == cycle_start[k]
             virtual_exit == start_row.timestamp - VirtualExitMinutes * Minute
             last_cat == LastCat(df, start_row)
             rest == DwellLoop(df, cycle_start, k + 1, cat)
         IN  IF last_cat = <<>> THEN rest
             ELSE IF last_cat[1].cat_identity # cat THEN rest
             ELSE LET dwell_sec == virtual_exit - last_cat[1].timestamp
                  IN  IF 0 < dwell_sec /\ dwell_sec < DwellWindowMinutes * Minute
                      THEN <<[x |-> start_row.timestamp,
                              y |-> RoundTenths(dwell_sec, Minute)]>> \o rest
                      ELSE rest

dwell_data(df, profiles) ==
    LET keys == SelectSeq(ColorKeys(profiles), LAMBDA c : c # "System")
        cycle_start == SelectSeq(df, LAMBDA e : e.activity = "Clean Cycle In Progress")
        all == [k \in 1..Len(keys) |->
                  [label |-> keys[k], data |-> DwellLoop(df, cycle_start, 1, keys[k])]]
    IN  SelectSeq(all, LAMBDA ds : ds.data # <<>>)

analysis ==
    LET df == OrderByTimestamp({e \in usage_logs :
                  e.cat_identity # "Error" /\ e.timestamp >= YearStart})
    IN  /\ ret' = IF df = <<>> THEN [view |-> "analysis_empty"]
                  ELSE [view |-> "analysis",
                        machine_data |-> machine_health(df),
                        dwell_data |-> dwell_data(df, cat_profiles),
                        freq_data |-> freq_data(df, cat_profiles)]
        /\ UNCHANGED <<usage_logs, data_blacklist, cat_profiles, upload_history, tmpfile, flash>>

report(cat_id) ==
    LET df == OrderByTimestamp({e \in usage_logs :
                  e.cat_identity = cat_id /\ e.date >= DateOf(NowDt - 365 * Day)})
        recent_df == SelectSeq(df, LAMBDA e : e.timestamp >= ThirtyDaysAgo)
        days == DaysOf(recent_df)
        counts == DailyCounts(recent_df, days)
        days_tracked == IF recent_df = <<>> THEN 1
                        ELSE Max(1, (NowDt - recent_df[1].timestamp) \div Day + 1)
    IN  /\ ret' = IF df = <<>> THEN [view |-> "report_empty", cat |-> cat_id]
                  ELSE [view |-> "report", cat |-> cat_id,
                        current_weight |-> LastWeight(df),
                        freq_labels |-> days,
                        freq_values |-> counts,
                        avg_visits |-> IF recent_df = <<>> THEN 0
                                       ELSE RoundTenths(SumSeq(counts), Min(days_tracked, 30))]
        /\ UNCHANGED <<usage_logs, data_blacklist, cat_profiles, upload_history, tmpfile, flash>>

(***************************************************************************)
(* The views over ledgers of visit Events and of cycle markers             *)
(***************************************************************************)
MaxEvents == 4

VisitEvent(t, cat) == Event(t, 0, "Cat detected", <<NoVal>>, cat, NoReason)

CycleEvent(t, activity) ==
    Event(t, 0, activity, <<NoVal>>, "System", Rsn("Machine Operation", "", 0, 0))

VisitBases == {59 * Day + 12 * Hour, 59 * Day + 23 * Hour + 50 * Minute}

VisitOffsets == {0, 5, 10, 11, 12, 22}

VisitTimes == {b + o * Minute : b \in VisitBases, o \in VisitOffsets}

\* An Event of another identity inside the visits, and one older than 30 days.
ExtraEvents == {VisitEvent(59 * Day + 12 * Hour + 6 * Minute, "Milo"),
                VisitEvent(NowDt - 40 * Day, "Luna")}

VisitLedgers ==
    {{VisitEvent(b + o * Minute, "Luna") : o \in offs} \cup extra :
        b \in VisitBases,
        offs \in {x \in SUBSET VisitOffsets : Cardinality(x) <= MaxEvents},
        extra \in SUBSET ExtraEvents}

CycleBase == 59 * Day + 8 * Hour

CycleOffsets == {0, 30, 90, 300, 360}

CycleMarks ==
    {"Clean Cycle In Progress", "Clean Cycle Complete", "Cycle interrupted"}

CycleLedgers ==
    {{CycleEvent(CycleBase + o, f[o]) : o \in {x \in CycleOffsets : f[x] # "none"}} :
        f \in {g \in [CycleOffsets -> CycleMarks \cup {"none"}] :
                  Cardinality({x \in CycleOffsets : g[x] # "none"}) <= MaxEvents}}

\* One cycle start and motion Events at and before its virtual exit.
DwellStart == CycleBase + 2 * Hour

DwellOffsets == {0, 10, 20, 30, 31}

DwellLedgers ==
    {{CycleEvent(DwellStart, "Clean Cycle In Progress")} \cup
     {VisitEvent(DwellStart - (VirtualExitMinutes + o) * Minute, f[o]) :
          o \in {x \in DwellOffsets : f[x] # "none"}} :
        f \in {g \in [DwellOffsets -> {"Luna", "Milo", "Unknown", "none"}] :
                  Cardinality({x \in DwellOffsets : g[x] # "none"}) < MaxEvents}}

InitViews ==
    /\ usage_logs \in VisitLedgers \cup CycleLedgers \cup DwellLedgers
    /\ data_blacklist = <<>>
    /\ cat_profiles \in {<<Profile("Luna", 90000)>>,
                          <<Profile("Milo", 130000), Profile("Luna", 90000)>>}
    /\ upload_history = <<>>
    /\ tmpfile = <<>>
    /\ flash = Flash("", "", 0)
    /\ ret = NoRet

Report == \E cat_id \in {"Luna", "Milo"} : report(cat_id)

NextViews == dashboard \/ analysis \/ Report

SpecViews == InitViews /\ [][NextViews]_vars

\* The three Events of Luna inside the 30-day range lie at T, T+5min, T+12min
\* on one calendar day.
ThreeEvents(T) ==
    /\ {e.timestamp : e \in {x \in usage_logs :
            x.cat_identity = "Luna" /\ x.timestamp > ThirtyDaysAgo}}
          = {T, T + 5 * Minute, T + 12 * Minute}
    /\ DateOf(T) = DateOf(T + 12 * Minute)
    /\ T >= YearStart

\* The count a per-day series (labels, values) gives for a day.
CountOn(labels, values, day) ==
    {values[d] : d \in {x \in 1..Len(labels) : labels[x] = day}}

\* C6: three Events of one identity at T, T+5min and T+12min of one day count as
\* exactly 2 visits in the dashboard summary, in the per-day frequency series of
\* the analysis and in the report.
C6_SessionGrouping ==
    \A T \in VisitTimes :
        ThreeEvents(T) =>
            /\ ret.view = "dashboard" =>
                  /\ \E k \in 1..Len(ret.trends) : ret.trends[k].name = "Luna"
                  /\ \A k \in 1..Len(ret.trends) :
                        ret.trends[k].name = "Luna" => ret.trends[k].visits_total = 2
            /\ ret.view = "analysis" =>
                  \E k \in 1..Len(ret.freq_data.datasets) :
                      /\ ret.freq_data.datasets[k].label = "Luna"
                      /\ CountOn(ret.freq_data.labels, ret.freq_data.datasets[k].data,
                                 DateOf(T)) = {2}
            /\ (ret.view \in {"report", "report_empty"} /\ ret.cat = "Luna") =>
                  /\ ret.view = "report"
                  /\ CountOn(ret.freq_labels, ret.freq_values, DateOf(T)) = {2}
                  /\ SumSeq(ret.freq_values) = 2

C6_Witness ==
    /\ \E T \in VisitTimes : ThreeEvents(T)
    /\ ret.view = "report"
    /\ ret.cat = "Luna"
    /\ SumSeq(ret.freq_values) = 2

\* The Event times of Luna a view walks in one pass, each with the visit count
\* the view reports for them: the 30-day range as a whole in the dashboard, one
\* calendar day at a time in the analysis and in the report.
LunaTimes(from) ==
    {e.timestamp : e \in {x \in usage_logs : x.cat_identity = "Luna" /\ x.timestamp >= from}}

OnDay(S, day) == {t \in S : DateOf(t) = day}

ViewCounts ==
    IF ret.view = "dashboard"
    THEN {<<LunaTimes(ThirtyDaysAgo + 1), ret.trends[k].visits_total>> :
             k \in {x \in 1..Len(ret.trends) : ret.trends[x].name = "Luna"}}
    ELSE IF ret.view = "analysis"
    THEN {<<OnDay(LunaTimes(YearStart), ret.freq_data.labels[p[2]]),
            ret.freq_data.datasets[p[1]].data[p[2]]>> :
             p \in {q \in (1..Len(ret.freq_data.datasets)) \X (1..Len(ret.freq_data.labels)) :
                       ret.freq_data.datasets[q[1]].label = "Luna"}}
    ELSE IF ret.view = "report" /\ ret.cat = "Luna"
    THEN {<<OnDay(LunaTimes(ThirtyDaysAgo), ret.freq_labels[d]), ret.freq_values[d]>> :
             d \in 1..Len(ret.freq_labels)}
    ELSE {}

\* The Events that open a visit when the anchor moves to every merged Event:
\* those more than 10 minutes after the Event immediately before them.
ChainOpeners(S) ==
    {t \in S : \A u \in S : u < t => t - u > SessionGapMinutes * Minute}

\* The Events that open a visit when the anchor stays at the Event that opened
\* the visit: those more than 10 minutes after every earlier opener.
AnchorOpeners(S) ==
    CHOOSE A \in SUBSET S :
        \A t \in S : t \in A <=> \A a \in A : a < t => t - a > SessionGapMinutes * Minute

\* C11 as stated: a merged Event moves the anchor, so a new visit starts exactly
\* when the gap to the immediately preceding Event exceeds 10 minutes and a chain
\* of Events each at most 10 minutes after the previous one is a single visit.
C11_SessionAnchor ==
    \A p \in ViewCounts : p[2] = Cardinality(ChainOpeners(p[1]))

\* C11 amended: a merged Event leaves the anchor at the Event that opened the
\* visit, so a new visit starts exactly when an Event lies more than 10 minutes
\* after the opening Event of the current visit.
C11_AnchorAtVisitStart ==
    \A p \in ViewCounts : p[2] = Cardinality(AnchorOpeners(p[1]))

\* A chain with steps of 5, 6 and 1 minutes reported as two visits.
C11_Witness ==
    /\ ret.view = "dashboard"
    /\ \E T \in VisitTimes :
          /\ LunaTimes(ThirtyDaysAgo + 1) = {T, T + 5 * Minute, T + 11 * Minute, T + 12 * Minute}
          /\ ViewCounts = {<<LunaTimes(ThirtyDaysAgo + 1), 2>>}
          /\ Cardinality(ChainOpeners(LunaTimes(ThirtyDaysAgo + 1))) = 1

Starts == {e \in usage_logs : e.activity = "Clean Cycle In Progress" /\ e.cat_identity # "Error"}

Ends == {e \in usage_logs : e.activity = "Clean Cycle Complete" /\ e.cat_identity # "Error"}

Interrupts == {e \in usage_logs : e.activity = "Cycle interrupted" /\ e.cat_identity # "Error"}

StartsBefore(end) == {b \in Starts : b.timestamp < end.timestamp}

\* The start marker an end marker is paired with: the latest one before it.
PairedStart(end) ==
    CHOOSE b \in StartsBefore(end) : \A o \in StartsBefore(end) : o.timestamp <= b.timestamp

CountedEnds ==
    {end \in Ends :
        /\ StartsBefore(end) # {}
        /\ end.timestamp - PairedStart(end).timestamp > 60
        /\ end.timestamp - PairedStart(end).timestamp < 300
        /\ ~\E i \in Interrupts :
              /\ i.timestamp > PairedStart(end).timestamp
              /\ i.timestamp < end.timestamp}

\* C7: an end marker paired with its start contributes one point to the
\* cycle-duration series iff the duration is strictly between 60 and 300 seconds
\* and no 'Cycle interrupted' Event lies strictly between them; a pair 90 seconds
\* apart counts once, and not at all with an interruption in between.
C7_CycleValidity ==
    ret.view = "analysis" =>
        /\ Len(ret.machine_data) = Cardinality(CountedEnds)
        /\ {<<ret.machine_data[k].x, ret.machine_data[k].y>> : k \in 1..Len(ret.machine_data)}
              = {<<PairedStart(end).timestamp,
                   (200 * (end.timestamp - PairedStart(end).timestamp) + 60) \div 120>> :
                       end \in CountedEnds}
        /\ usage_logs = {CycleEvent(CycleBase, "Clean Cycle In Progress"),
                         CycleEvent(CycleBase + 90, "Clean Cycle Complete")}
              => Len(ret.machine_data) = 1
        /\ usage_logs = {CycleEvent(CycleBase, "Clean Cycle In Progress"),
                         CycleEvent(CycleBase + 30, "Cycle interrupted"),
                         CycleEvent(CycleBase + 90, "Clean Cycle Complete")}
              => Len(ret.machine_data) = 0

C7_Witness ==
    /\ ret.view = "analysis"
    /\ usage_logs = {CycleEvent(CycleBase, "Clean Cycle In Progress"),
                     CycleEvent(CycleBase + 90, "Clean Cycle Complete")}
    /\ Len(ret.machine_data) = 1
    /\ ret.machine_data[1] = [x |-> CycleBase, y |-> 150]

\* C12: every end marker is paired with the most recent preceding start marker
\* that no earlier end marker was paired with, so no start marker opens two
\* points of the cycle-duration series and two end markers after a single start
\* yield at most one cycle.
C12_CyclePairing ==
    ret.view = "analysis" =>
        /\ \A k, m \in 1..Len(ret.machine_data) :
              ret.machine_data[k].x = ret.machine_data[m].x => k = m
        /\ Cardinality(Starts) = 1 => Len(ret.machine_data) <= 1

(***************************************************************************)
(* Uploads of one motion row followed by filler rows and a weight row      *)
(***************************************************************************)
TC == RawTs(3, 1, 9, 0, "am")

AfterTC(minutes) == RawTs(3, 1, 9, minutes, "am")

CorrFillers == {0, 18, 19, 20}

CorrDelays == {6, 7, 8}

CorrWeights == {5000, 5001, 91000}

\* A weight-recorded row without a weight, one minute after the motion row.
Filler == RawRow("Weight recorded", AfterTC(1), NoVal)

Reverse(q) == [k \in 1..Len(q) |-> q[Len(q) + 1 - k]]

CorrFile(fillers, delay, weight) ==
    <<RawRow("Cat detected", TC, NoVal)>> \o [k \in 1..fillers |-> Filler]
        \o <<RawRow("Weight recorded", AfterTC(delay), RawVal(TRUE, TRUE, weight))>>

CorrFiles ==
    LET ordered == {CorrFile(n, d, w) : n \in CorrFillers, d \in CorrDelays, w \in CorrWeights}
    IN  ordered \cup {Reverse(f) : f \in ordered}

InitCorr ==
    /\ usage_logs = {}
    /\ data_blacklist = <<>>
    /\ cat_profiles \in {<<Profile("Luna", 90000)>>, <<Profile("Tiny", 10000)>>}
    /\ upload_history = <<>>
    /\ tmpfile = <<>>
    /\ flash = Flash("", "", 0)
    /\ ret = NoRet

UploadCorr == \E file \in CorrFiles : Len(upload_history) < MaxUploads /\ upload_file(file)

NextCorr == UploadCorr

SpecCorr == InitCorr /\ [][NextCorr]_vars

\* The rows of the first upload into the empty ledger, in time order.
FirstBatch == SortByDt(ParseFile(tmpfile, <<>>))

FirstUploadDone == flash.message = UploadOk /\ Len(upload_history) = 1

\* Rows after row i that are weight readings of at least 0.5 lb.
WeightRowsAfter(rows, i) ==
    {j \in (i + 1)..Len(rows) :
        HasWeightRecorded(rows[j].activity) /\ rows[j].weight >= MinWeight}

\* C8: a motion Event at T with weight below 0.5 whose first following
\* 'weight recorded' row with weight >= 0.5 lies at most 7 minutes after T is
\* stored with the identity the classifier gives that weight row; when that row
\* lies more than 7 minutes after T it is stored as Unknown, 'No weight found in 7m'.
C8_CorrelatorWindow ==
    FirstUploadDone =>
        \A i \in 1..Len(FirstBatch) :
            (/\ HasCatDetected(FirstBatch[i].activity)
             /\ FirstBatch[i].weight < MinWeight
             /\ \A m \in 1..(i - 1) : FirstBatch[m].timestamp # FirstBatch[i].timestamp
             /\ WeightRowsAfter(FirstBatch, i) # {}) =>
                LET j == MinOf(WeightRowsAfter(FirstBatch, i))
                    e == RowAt(usage_logs, FirstBatch[i].timestamp)
                IN  IF FirstBatch[j].dt - FirstBatch[i].dt <= 7 * 60
                    THEN e.cat_identity = classify_row(FirstBatch[j], cat_profiles).cat
                    ELSE /\ e.cat_identity = "Unknown"
                         /\ e.flag_reason.text = "No weight found in 7m"

\* The motion rows of the first batch that reach the ledger: weight below 0.5
\* and first of their timestamp.
MotionRows ==
    {i \in 1..Len(FirstBatch) :
        /\ HasCatDetected(FirstBatch[i].activity)
        /\ FirstBatch[i].weight < MinWeight
        /\ \A m \in 1..(i - 1) : FirstBatch[m].timestamp # FirstBatch[i].timestamp}

\* Rows after row i, at most 7 minutes later, that are weight readings above
\* 0.5 lb (the readings every account of the threshold accepts).
ReadingsAfter(rows, i) ==
    {j \in (i + 1)..Len(rows) :
        /\ HasWeightRecorded(rows[j].activity)
        /\ rows[j].weight > MinWeight
        /\ rows[j].dt - rows[i].dt <= LookAheadMinutes * Minute}

Matched == "Matched w/ lbs (+m)"

\* C13: the look-ahead of a motion Event at index i examines the rows i+1 to
\* i+20; a weight reading within 7 minutes that is the 20th row after the motion
\* Event (or nearer) is adopted, and one that is the 21st (or farther) is not.
C13_CorrelatorRowBound ==
    FirstUploadDone =>
        \A i \in MotionRows :
            ReadingsAfter(FirstBatch, i) # {} =>
                LET j == MinOf(ReadingsAfter(FirstBatch, i))
                    e == RowAt(usage_logs, FirstBatch[i].timestamp)
                    found == classify_row(FirstBatch[j], cat_profiles).cat
                IN  IF j - i <= 20
                    THEN /\ e.cat_identity = found
                         /\ found # "Unknown" => e.flag_reason.text = Matched
                    ELSE /\ e.cat_identity = "Unknown"
                         /\ e.flag_reason.text # Matched

\* The rows the look-ahead of row i scans: the following rows of the batch up
\* to the row bound, and the first reading among them.
Scanned(rows, i) == {j \in ReadingsAfter(rows, i) : j <= LookAheadLast(i, Len(rows))}

\* C14: when the look-ahead finds a reading, the motion Event is stored with the
\* identity the classifier gives that reading (a profile name or Unknown) and
\* with a reason recording the borrowed weight and the elapsed minutes; the
\* reason 'No weight found in 7m' is stored only when it finds none.
C14_CorrelatorAdoption ==
    FirstUploadDone =>
        \A i \in MotionRows :
            LET e == RowAt(usage_logs, FirstBatch[i].timestamp)
            IN  /\ Scanned(FirstBatch, i) # {} =>
                      LET j == MinOf(Scanned(FirstBatch, i))
                      IN  /\ e.cat_identity = classify_row(FirstBatch[j], cat_profiles).cat
                          /\ e.flag_reason =
                                Rsn(Matched, "", FirstBatch[j].weight,
                                    (FirstBatch[j].dt - FirstBatch[i].dt) \div Minute)
                /\ e.flag_reason.text = "No weight found in 7m" =>
                      Scanned(FirstBatch, i) = {}

\* The points of the dwell series, as (identity, cycle start, tenths of a minute).
DwellPoints ==
    {<<ret.dwell_data[p[1]].label, ret.dwell_data[p[1]].data[p[2]].x,
       ret.dwell_data[p[1]].data[p[2]].y>> :
        p \in {q \in (1..Len(ret.dwell_data)) \X (1..MaxEvents + 1) :
                  q[2] <= Len(ret.dwell_data[q[1]].data)}}

\* The motion Events of identity cat inside the window of a cycle start.
InWindow(start, cat) ==
    {e \in usage_logs :
        /\ HasCatDetected(e.activity)
        /\ e.cat_identity = cat
        /\ e.timestamp <= start.timestamp - VirtualExitMinutes * Minute
        /\ e.timestamp >= start.timestamp - (VirtualExitMinutes + DwellWindowMinutes) * Minute}

DwellOf(start, cat) ==
    start.timestamp - VirtualExitMinutes * Minute
        - CHOOSE t \in {e.timestamp : e \in InWindow(start, cat)} :
              \A e \in InWindow(start, cat) : e.timestamp <= t

Evaluated == {cat_profiles[k].name : k \in 1..Len(cat_profiles)} \cup {"Unknown"}

\* C15: for each cycle start S and identity C the dwell series holds a point
\* exactly when C has a motion Event in [S-45min, S-15min] and S-15min minus the
\* time of the most recent such Event is strictly between 0 and 30 minutes; the
\* point carries that value, whatever other identities did in the window.
C15_DwellEstimate ==
    ret.view = "analysis" =>
        DwellPoints =
            {<<cat, start.timestamp, RoundTenths(DwellOf(start, cat), Minute)>> :
                <<start, cat>> \in {p \in Starts \X Evaluated :
                    /\ InWindow(p[1], p[2]) # {}
                    /\ 0 < DwellOf(p[1], p[2])
                    /\ DwellOf(p[1], p[2]) < DwellWindowMinutes * Minute}}

====
